---- MODULE Spec2Model ----
(***************************************************************************)
(* BayesFlow: the Trainer (src/bayesflow/trainers.py) and the affine       *)
(* coupling layer exercised by src/tests/test_coupling_networks.py.        *)
(*                                                                         *)
(* Two specifications share the module:                                    *)
(*   SpecCoupling - build a coupling layer, run one forward pass on a      *)
(*                  batch and invert the result;                           *)
(*   Spec         - construct a Trainer and run its training regimes.      *)
(***************************************************************************)
EXTENDS Integers, Sequences, FiniteSets, TLC

VARIABLES
    \* ---- coupling layer -------------------------------------------------
    cpc,        \* "idle" | "new" | "built" | "forwarded" | "inverted"
    layer,      \* the layer's meta settings and (trainable) parameters
    inp,        \* the batch handed to the forward pass
    condition,  \* the condition batch, or None
    z,          \* forward output
    ldj,        \* forward log-det-Jacobian
    inp_rec,    \* output of the inverse pass
    \* ---- Trainer: construction -----------------------------------------
    tpc,        \* position of the Trainer: "idle", "new", "failed", "ready", ...
    args,       \* the arguments and collaborators' behaviour given to __init__
    self,       \* the Trainer instance's attributes; NoTrainer when there is none
    error,      \* the exception that escaped the last call, or NoError
    ctor_calls, \* what __init__ reached, in order
    \* ---- Trainer: training ---------------------------------------------
    regime,     \* the method called: "none", "online", "offline", "rounds", "direct"
    params,     \* its arguments
    r, ep, it,  \* loop variables of train_rounds and of train_online / train_offline
    losses,     \* `losses` of the running train_online / train_offline
    round_losses,      \* `losses` of train_rounds
    simulations_dict,  \* the data set of train_offline / train_rounds
    calls,      \* calls made to the collaborators during the run, in order
    result      \* the value returned

cvars == <<cpc, layer, inp, condition, z, ldj, inp_rec>>
kvars == <<tpc, args, self, error, ctor_calls>>
tvars == <<regime, params, r, ep, it, losses, round_losses, simulations_dict, calls, result>>
vars  == <<cvars, kvars, tvars>>

None == "None"

-----------------------------------------------------------------------------
(* Exact rational arithmetic: a number is <<numerator, denominator>> in    *)
(* lowest terms with a positive denominator.                               *)

Abs(a) == IF a < 0 THEN -a ELSE a

RECURSIVE GCD(_, _)
GCD(a, b) == IF b = 0 THEN a ELSE GCD(b, a % b)

Rat(n, d) ==
    LET sn == IF d < 0 THEN -n ELSE n
        sd == Abs(d)
        g  == GCD(Abs(sn), sd)
    IN  IF sn < 0 THEN <<-(Abs(sn) \div g), sd \div g>>
                  ELSE <<sn \div g, sd \div g>>

RInt(n)    == <<n, 1>>
RAdd(a, b) == Rat(a[1] * b[2] + b[1] * a[2], a[2] * b[2])
RSub(a, b) == Rat(a[1] * b[2] - b[1] * a[2], a[2] * b[2])
RMul(a, b) == Rat(a[1] * b[1], a[2] * b[2])
RFloor(a)  == a[1] \div a[2]

RECURSIVE RSum(_)
RSum(v) == IF v = <<>> THEN RInt(0) ELSE RAdd(Head(v), RSum(Tail(v)))

RECURSIVE ISum(_)
ISum(v) == IF v = <<>> THEN 0 ELSE Head(v) + ISum(Tail(v))

-----------------------------------------------------------------------------
(* The affine coupling layer (bayesflow.coupling_networks), as the tests   *)
(* use it: network(inp, condition) and network(z, condition, inverse=True).*)
(* exp is modelled by the exact homomorphism s |-> 2^s on clamped integer  *)
(* scales, so that exp(s) * exp(-s) = 1 holds without rounding.            *)

MaxBatch == 2                \* largest batch size explored
InputDims == {2, 3}          \* values of n_params explored
CondVals == {0, 1}           \* entries of the condition vectors
Weights == {-1, 2}           \* values of the sub-networks' weight
ActScales == {-1, 1}         \* values of the activation norm's log-scale
SClamp == 1                  \* soft-clamp bound on the predicted scale

Range(f) == {f[i] : i \in DOMAIN f}

Perms(D) == {p \in [1..D -> 1..D] : Range(p) = 1..D}

Exp(s) == IF s >= 0 THEN Rat(2^s, 1) ELSE Rat(1, 2^(-s))

Clamp(v) == IF v > SClamp THEN SClamp ELSE IF v < -SClamp THEN -SClamp ELSE v

\* the split of a vector of n_params entries into its two halves
Split1(D, x) == SubSeq(x, 1, D \div 2)
Split2(D, x) == SubSeq(x, (D \div 2) + 1, D)

\* scale predictor: one clamped scale per transformed dimension
NetworkS(L, x1, c) ==
    [j \in 1..(L.n_params - (L.n_params \div 2)) |->
        Clamp(RFloor(RAdd(RMul(RInt(L.w), RSum(x1)), RSum(c))) + j)]

\* translation predictor: one translation per transformed dimension
NetworkT(L, x1, c) ==
    [j \in 1..(L.n_params - (L.n_params \div 2)) |->
        RAdd(RSub(RSum(x1), RMul(RInt(L.w), RSum(c))), RInt(j))]

\* x2' = x2 * exp(s) + t, x1 unchanged; log-det-Jacobian = sum(s)
CouplingForward(L, x, c) ==
    LET x1 == Split1(L.n_params, x)
        x2 == Split2(L.n_params, x)
        s  == NetworkS(L, x1, c)
        t  == NetworkT(L, x1, c)
    IN  [out |-> x1 \o [j \in DOMAIN x2 |-> RAdd(RMul(x2[j], Exp(s[j])), t[j])],
         ldj |-> ISum(s)]

\* (mutant) the inverse rescales by exp(s) instead of exp(-s)
CouplingInverseWrongSign(L, y, c) ==
    LET y1 == Split1(L.n_params, y)
        y2 == Split2(L.n_params, y)
        s  == NetworkS(L, y1, c)
        t  == NetworkT(L, y1, c)
    IN  y1 \o [j \in DOMAIN y2 |-> RMul(RSub(y2[j], t[j]), Exp(s[j]))]

\* x2 = (z2 - t) * exp(-s), with s and t derived from the untouched half
CouplingInverse(L, y, c) ==
    LET y1 == Split1(L.n_params, y)
        y2 == Split2(L.n_params, y)
        s  == NetworkS(L, y1, c)
        t  == NetworkT(L, y1, c)
    IN  y1 \o [j \in DOMAIN y2 |-> RMul(RSub(y2[j], t[j]), Exp(-s[j]))]

\* fixed permutation of the dimensions and its inverse
PermutationForward(L, x) == [j \in DOMAIN x |-> x[L.permutation[j]]]

PermutationInverse(L, y) ==
    [j \in DOMAIN y |-> y[CHOOSE k \in DOMAIN y : L.permutation[k] = j]]

\* activation normalization: per-channel affine map and its inverse
ActNormForward(L, x) ==
    [out |-> [j \in DOMAIN x |->
                 RAdd(RMul(Exp(L.act_norm.scale[j]), x[j]), RInt(L.act_norm.bias[j]))],
     ldj |-> ISum(L.act_norm.scale)]

ActNormInverse(L, y) ==
    [j \in DOMAIN y |->
        RMul(RSub(y[j], RInt(L.act_norm.bias[j])), Exp(-L.act_norm.scale[j]))]

\* forward pass on one sample: act norm, permutation, coupling
ForwardSample(L, x, c) ==
    LET a == IF L.use_act_norm THEN ActNormForward(L, x)
                                  ELSE [out |-> x, ldj |-> 0]
        p == IF L.use_permutation THEN PermutationForward(L, a.out) ELSE a.out
        k == CouplingForward(L, p, c)
    IN  [out |-> k.out, ldj |-> a.ldj + k.ldj]

\* inverse pass on one sample: the stages undone in reverse order
InverseSample(L, y, c) ==
    LET k == CouplingInverse(L, y, c)
        p == IF L.use_permutation THEN PermutationInverse(L, k) ELSE k
    IN  IF L.use_act_norm THEN ActNormInverse(L, p) ELSE p

\* the sub-networks' view of one sample's condition: nothing when unconditional
CondAt(L, c, i) == IF L.cond_dim = 0 THEN <<>> ELSE c[i]

\* (mutant) the log-det-Jacobian is summed over the batch as well
ForwardLdjReduced(L, x, c) ==
    <<ISum([i \in DOMAIN x |-> ForwardSample(L, x[i], CondAt(L, c, i)).ldj])>>

\* the batched passes: every sample is transformed on its own
ForwardZ(L, x, c)   == [i \in DOMAIN x |-> ForwardSample(L, x[i], CondAt(L, c, i)).out]
ForwardLdj(L, x, c) == [i \in DOMAIN x |-> ForwardSample(L, x[i], CondAt(L, c, i)).ldj]
InverseX(L, y, c)   == [i \in DOMAIN y |-> InverseSample(L, y[i], CondAt(L, c, i))]

ToRat(v) == [j \in DOMAIN v |-> RInt(v[j])]

\* the input vectors explored: one entry differs from the others
Samples(D) == {[j \in 1..D |-> IF j = k THEN 2 ELSE -1] : k \in 1..D}

Batches(S) == UNION {[1..b -> S] : b \in 1..MaxBatch}

InitCoupling ==
    /\ cpc = "new"
    /\ tpc = "idle" /\ args = None /\ self = None /\ error = None /\ ctor_calls = <<>>
    /\ regime = "none" /\ params = None /\ r = 0 /\ ep = 0 /\ it = 0
    /\ losses = None /\ round_losses = None /\ simulations_dict = None
    /\ calls = <<>> /\ result = None
    /\ layer = None /\ inp = None /\ condition = None
    /\ z = None /\ ldj = None /\ inp_rec = None

\* AffineCouplingLayer(meta)
BuildLayer ==
    /\ cpc = "new"
    /\ \E D \in InputDims, use_perm \in BOOLEAN, use_act_norm \in BOOLEAN,
          cond_dim \in {0, 1}, w \in Weights, a \in ActScales :
       \E perm \in Perms(D) :
          layer' = [n_params    |-> D,
                    use_permutation |-> use_perm,
                    use_act_norm    |-> use_act_norm,
                    cond_dim    |-> cond_dim,
                    w           |-> w,
                    permutation |-> IF use_perm THEN perm ELSE None,
                    act_norm    |-> IF use_act_norm
                                    THEN [scale |-> [j \in 1..D |-> IF j = 1 THEN a ELSE 0],
                                          bias  |-> [j \in 1..D |-> j]]
                                    ELSE None]
    /\ cpc' = "built"
    /\ UNCHANGED <<inp, condition, z, ldj, inp_rec, kvars, tvars>>

\* z, ldj = network(inp, condition)
Forward ==
    /\ cpc = "built"
    /\ \E x \in Batches(Samples(layer.n_params)) :
       \E c \in IF layer.cond_dim = 0 THEN {None}
                ELSE [1..Len(x) -> [1..layer.cond_dim -> CondVals]] :
          /\ inp' = [i \in DOMAIN x |-> ToRat(x[i])]
          /\ condition' = IF layer.cond_dim = 0 THEN None
                           ELSE [i \in DOMAIN c |-> ToRat(c[i])]
          /\ z' = ForwardZ(layer, inp', condition')
          /\ ldj' = ForwardLdj(layer, inp', condition')
    /\ cpc' = "forwarded"
    /\ UNCHANGED <<layer, inp_rec, kvars, tvars>>

\* inp_rec = network(z, condition, inverse=True)
Inverse ==
    /\ cpc = "forwarded"
    /\ inp_rec' = InverseX(layer, z, condition)
    /\ cpc' = "inverted"
    /\ UNCHANGED <<layer, inp, condition, z, ldj, kvars, tvars>>

NextCoupling == BuildLayer \/ Forward \/ Inverse

SpecCoupling == InitCoupling /\ [][NextCoupling]_vars

\* C1: the inverse pass applied to the output of the forward pass, with the
\* same condition, returns the input of the forward pass, for every layer
\* configuration (permutation, activation normalization, conditioning).
C1_RoundTrip == cpc = "inverted" => inp_rec = inp

C1_Witness ==
    /\ cpc = "inverted"
    /\ layer.use_permutation /\ layer.use_act_norm /\ layer.cond_dim > 0
    /\ layer.n_params = 3 /\ Len(inp) = 2
    /\ z # inp /\ inp_rec = inp

\* C2: the forward pass returns a transformed batch of the shape of its
\* input, (batch, n_params), and one log-det-Jacobian entry per batch element.
C2_Shapes ==
    cpc \in {"forwarded", "inverted"} =>
        /\ DOMAIN z = DOMAIN inp
        /\ \A i \in DOMAIN z : DOMAIN z[i] = 1..layer.n_params
        /\ DOMAIN ldj = DOMAIN inp
        /\ \A i \in DOMAIN ldj : ldj[i] \in Int

C2_Witness ==
    /\ cpc = "forwarded"
    /\ Len(inp) = 2 /\ layer.n_params = 3
    /\ Len(z) = 2 /\ Len(ldj) = 2 /\ ldj[1] # ldj[2]

-----------------------------------------------------------------------------
(* Trainer.__init__ (src/bayesflow/trainers.py).                           *)

NoError == [type |-> "none", msg |-> "", trace |-> ""]

Raise(type, msg, trace) == [type |-> type, msg |-> msg, trace |-> trace]

AmortizerTypes == {"AmortizedPosterior", "AmortizedLikelihood", "JointAmortizer", "Other"}

\* the strings _manage_configurator accepts
STRING_CONFIGS ==
    {"variable_num_obs", "one_hot", "variable_num_obs_one_hot", "one_hot_variable_num_obs"}

\* configurator arguments explored: a callable, None, strings, another type
ConfigFuns ==
    {[type |-> "callable", value |-> "user_fun"], [type |-> "NoneType", value |-> "None"],
     [type |-> "int", value |-> "42"]}
    \cup {[type |-> "str", value |-> v] : v \in STRING_CONFIGS \cup {"num_obs"}}

\* how a collaborator's call ends: normally, with an exception derived from
\* Exception, or with one derived from BaseException only (KeyboardInterrupt,
\* SystemExit)
Outcomes == {"ok", "Exception", "BaseException"}

\* (mutant) an unrecognized amortizer falls back to the posterior defaults
DefaultsForFallback(amortizer) ==
    IF amortizer = "AmortizedLikelihood"
    THEN [known |-> TRUE, config |-> "DefaultLikelihoodConfigurator",
          combiner |-> "DefaultLikelihoodTransformer", transfomer |-> "DefaultLikelihoodCombiner"]
    ELSE IF amortizer = "JointAmortizer"
    THEN [known |-> TRUE, config |-> "DefaultJointConfigurator",
          combiner |-> "DefaultJointTransformer", transfomer |-> "DefaultJointCombiner"]
    ELSE [known |-> TRUE, config |-> "DefaultPosteriorConfigurator",
          combiner |-> "DefaultPosteriorCombiner", transfomer |-> "DefaultPosteriorTransformer"]

\* the default configurator classes inferred from the amortizer's type
DefaultsFor(amortizer) ==
    IF amortizer = "AmortizedPosterior"
    THEN [known |-> TRUE, config |-> "DefaultPosteriorConfigurator",
          combiner |-> "DefaultPosteriorCombiner", transfomer |-> "DefaultPosteriorTransformer"]
    ELSE IF amortizer = "AmortizedLikelihood"
    THEN [known |-> TRUE, config |-> "DefaultLikelihoodConfigurator",
          combiner |-> "DefaultLikelihoodTransformer", transfomer |-> "DefaultLikelihoodCombiner"]
    ELSE IF amortizer = "JointAmortizer"
    THEN [known |-> TRUE, config |-> "DefaultJointConfigurator",
          combiner |-> "DefaultJointTransformer", transfomer |-> "DefaultJointCombiner"]
    ELSE [known |-> FALSE, config |-> "", combiner |-> "", transfomer |-> ""]

Configurator(config, transform_fun, combine_fun) ==
    [type |-> config, transform_fun |-> transform_fun, combine_fun |-> combine_fun]

NoConfigurator == Configurator("", <<>>, "")

Returned(v) == [error |-> NoError, value |-> v]
Raised(e)   == [error |-> e, value |-> NoConfigurator]

\* the transformer(s) a supported string selects
StringTransform(value) ==
    IF value = "variable_num_obs" THEN <<"VariableObservationsTransformer">>
    ELSE IF value = "one_hot" THEN <<"OneHotTransformer">>
    ELSE IF value = "variable_num_obs_one_hot"
    THEN <<"VariableObservationsTransformer", "OneHotTransformer">>
    ELSE <<"OneHotTransformer", "VariableObservationsTransformer">>

\* (mutant) an unsupported string falls through to the default configurator
ManageConfiguratorLenient(amortizer, config_fun) ==
    LET d == DefaultsFor(amortizer) IN
    IF config_fun.type = "callable"
    THEN Returned(Configurator(config_fun.value, <<>>, ""))
    ELSE IF ~d.known
    THEN Raised(Raise("NotImplementedError", "amortizer type", ""))
    ELSE IF config_fun.type = "str" /\ config_fun.value \in STRING_CONFIGS
    THEN Returned(Configurator(d.config, StringTransform(config_fun.value), d.combiner))
    ELSE IF config_fun.type \in {"NoneType", "str"}
    THEN Returned(Configurator(d.config, <<d.transfomer>>, d.combiner))
    ELSE Raised(Raise("NotImplementedError", "provided type", ""))

\* Trainer._manage_configurator
ManageConfigurator(amortizer, config_fun) ==
    LET d == DefaultsFor(amortizer) IN
    IF config_fun.type = "callable"
    THEN Returned(Configurator(config_fun.value, <<>>, ""))
    ELSE IF ~d.known
    THEN Raised(Raise("NotImplementedError", "amortizer type", ""))
    ELSE IF config_fun.type = "str"
    THEN IF config_fun.value \in STRING_CONFIGS
         THEN Returned(Configurator(d.config, StringTransform(config_fun.value), d.combiner))
         ELSE Raised(Raise("NotImplementedError", "string", ""))
    ELSE IF config_fun.type = "NoneType"
    THEN Returned(Configurator(d.config, <<d.transfomer>>, d.combiner))
    ELSE Raised(Raise("NotImplementedError", "provided type", ""))

\* the message of the exception a collaborator raises
ErrMsg(stage) == stage \o " failed"

\* (mutant) the handler drops the underlying error from its message
HandleNoTrace(class, stage) ==
    IF class = "Exception"
    THEN Raise("ConfigurationError", "Could not carry out computations", "")
    ELSE Raise(class, ErrMsg(stage), "")

\* what `except Exception as err` of _check_consistency does with an
\* exception of class `class` raised by `stage`
Handle(class, stage) ==
    IF class = "Exception"
    THEN Raise("ConfigurationError", "Could not carry out computations", ErrMsg(stage))
    ELSE Raise(class, ErrMsg(stage), "")

\* Trainer._check_consistency: the calls made and the exception that escapes
CheckConsistency(a) ==
    IF ~a.generative_model
    THEN [calls |-> <<>>, error |-> NoError]
    ELSE IF a.gm_out # "ok"
    THEN [calls |-> <<"generative_model">>, error |-> Handle(a.gm_out, "generative_model")]
    ELSE IF a.conf_out # "ok"
    THEN [calls |-> <<"generative_model", "configurator">>,
          error |-> Handle(a.conf_out, "configurator")]
    ELSE IF a.loss_out # "ok"
    THEN [calls |-> <<"generative_model", "configurator", "compute_loss">>,
          error |-> Handle(a.loss_out, "compute_loss")]
    ELSE [calls |-> <<"generative_model", "configurator", "compute_loss">>, error |-> NoError]

NoTrainer ==
    [exists |-> FALSE, amortizer |-> "", generative_model |-> FALSE,
     configurator |-> NoConfigurator, manager |-> FALSE]

\* Trainer.__init__: the instance, what was reached, the exception that escapes
Construction(a) ==
    LET conf  == ManageConfigurator(a.amortizer, a.configurator)
        inst  == [exists |-> TRUE, amortizer |-> a.amortizer,
                  generative_model |-> a.generative_model,
                  configurator |-> conf.value, manager |-> a.checkpoint_path]
        setup == <<"manage_configurator", "optimizer">>
                 \o (IF a.checkpoint_path THEN <<"checkpoint_restore">> ELSE <<>>)
        check == CheckConsistency(a)
    IN  IF conf.error # NoError
        THEN [self |-> NoTrainer, calls |-> <<"manage_configurator">>, error |-> conf.error]
        ELSE IF a.skip_checks
        THEN [self |-> inst, calls |-> setup, error |-> NoError]
        ELSE [self  |-> IF check.error = NoError THEN inst ELSE NoTrainer,
              calls |-> setup \o <<"check_consistency">> \o check.calls,
              error |-> check.error]

CtorArgs ==
    [amortizer : AmortizerTypes, generative_model : BOOLEAN, configurator : ConfigFuns,
     checkpoint_path : BOOLEAN, skip_checks : BOOLEAN,
     gm_out : Outcomes, conf_out : Outcomes, loss_out : Outcomes]

InitConstruct ==
    /\ tpc = "new"
    /\ args = None /\ self = NoTrainer /\ error = NoError /\ ctor_calls = <<>>
    /\ cpc = "idle"
    /\ layer = None /\ inp = None /\ condition = None
    /\ z = None /\ ldj = None /\ inp_rec = None
    /\ regime = "none" /\ params = None /\ r = 0 /\ ep = 0 /\ it = 0
    /\ losses = None /\ round_losses = None /\ simulations_dict = None
    /\ calls = <<>> /\ result = None

\* Trainer(amortizer, generative_model, configurator, ...)
Construct ==
    /\ tpc = "new"
    /\ \E a \in CtorArgs :
          \* a collaborator that is never called has no outcome to choose
          /\ (a.skip_checks \/ ~a.generative_model) =>
                 a.gm_out = "ok" /\ a.conf_out = "ok" /\ a.loss_out = "ok"
          /\ a.gm_out # "ok" => a.conf_out = "ok" /\ a.loss_out = "ok"
          /\ a.conf_out # "ok" => a.loss_out = "ok"
          /\ args' = a
          /\ self' = Construction(a).self
          /\ error' = Construction(a).error
          /\ ctor_calls' = Construction(a).calls
          /\ tpc' = IF Construction(a).error = NoError THEN "ready" ELSE "failed"
    /\ UNCHANGED <<cvars, tvars>>

\* Trainer.load_pretrained_network
LoadPretrainedNetwork ==
    /\ tpc = "ready"
    /\ ctor_calls' = ctor_calls \o (IF self.manager THEN <<"checkpoint_restore">> ELSE <<>>)
    /\ tpc' = "loaded"
    /\ UNCHANGED <<args, self, error, cvars, tvars>>

NextConstruct == Construct \/ LoadPretrainedNetwork

SpecConstruct == InitConstruct /\ [][NextConstruct]_vars

Reached(op) == \E i \in DOMAIN ctor_calls : ctor_calls[i] = op

\* C4: a configurator string outside the supported strings makes the
\* construction fail with an error at once: there is no Trainer instance and
\* neither the optimizer setup, nor the checkpoint restore, nor the
\* consistency check is reached.
C4_BadStringFails ==
    (tpc # "new" /\ args.configurator.type = "str"
                 /\ args.configurator.value \notin STRING_CONFIGS) =>
        /\ tpc = "failed" /\ error # NoError /\ ~self.exists
        /\ ~Reached("optimizer") /\ ~Reached("checkpoint_restore")
        /\ ~Reached("check_consistency")

C4_Witness ==
    /\ tpc = "failed" /\ args.configurator = [type |-> "str", value |-> "num_obs"]
    /\ args.amortizer = "AmortizedPosterior" /\ args.checkpoint_path /\ ~args.skip_checks
    /\ args.generative_model
    /\ error.type = "NotImplementedError" /\ error.msg = "string"

\* C5 as stated: an amortizer of an unrecognized type makes the construction
\* fail with an error whatever the configurator argument is, a callable
\* included.
C5_AsStated ==
    (tpc # "new" /\ args.amortizer = "Other") => (tpc = "failed" /\ error # NoError)

\* C5 (amended): an amortizer of an unrecognized type makes the construction
\* fail at once with an error whenever the configurator argument is not a
\* callable (a string, None or any other value); with a callable configurator
\* the amortizer's type is not examined.
C5_UnknownAmortizerFails ==
    (tpc # "new" /\ args.amortizer = "Other" /\ args.configurator.type # "callable") =>
        /\ tpc = "failed" /\ ~self.exists
        /\ error = Raise("NotImplementedError", "amortizer type", "")
        /\ ctor_calls = <<"manage_configurator">>

C5_Witness ==
    /\ tpc = "failed" /\ args.amortizer = "Other"
    /\ args.configurator.type = "NoneType"
    /\ args.generative_model /\ ~args.skip_checks
    /\ error.type = "NotImplementedError"

\* the stage of the consistency check that raises, if one does
FailedStage ==
    IF args.gm_out # "ok" THEN "generative_model"
    ELSE IF args.conf_out # "ok" THEN "configurator"
    ELSE IF args.loss_out # "ok" THEN "compute_loss"
    ELSE "none"

FailedClass ==
    IF args.gm_out # "ok" THEN args.gm_out
    ELSE IF args.conf_out # "ok" THEN args.conf_out
    ELSE args.loss_out

WrappedAsConfigurationError ==
    /\ tpc = "failed" /\ ~self.exists
    /\ error.type = "ConfigurationError"
    /\ error.trace = ErrMsg(FailedStage)

\* C6 as stated: whatever a stage of the consistency check raises is re-raised
\* as a ConfigurationError carrying the underlying message; the original
\* exception type never escapes.
C6_AsStated ==
    (tpc # "new" /\ Reached("check_consistency") /\ FailedStage # "none") =>
        WrappedAsConfigurationError

\* C6 (amended): an exception derived from Exception that a stage of the
\* consistency check raises (generative model, configurator or compute_loss)
\* is re-raised as a ConfigurationError carrying the underlying message, and
\* the construction does not complete; an exception derived from
\* BaseException only (KeyboardInterrupt, SystemExit) escapes unchanged.
C6_ExceptionWrapped ==
    (tpc # "new" /\ Reached("check_consistency") /\ FailedStage # "none") =>
        IF FailedClass = "Exception"
        THEN WrappedAsConfigurationError
        ELSE tpc = "failed" /\ ~self.exists /\ error.type = FailedClass

C6_Witness ==
    /\ tpc = "failed" /\ Reached("check_consistency")
    /\ args.gm_out = "ok" /\ args.conf_out = "ok" /\ args.loss_out = "Exception"
    /\ error.type = "ConfigurationError" /\ error.trace = "compute_loss failed"

-----------------------------------------------------------------------------
(* Trainer.train_online, train_offline, train_rounds, _train_step,         *)
(* _forward_inference and _backprop_step.                                  *)

MaxEpochs == 2          \* largest `epochs`
MaxIterations == 2      \* largest `iterations_per_epoch`
MaxBatchSize == 2       \* largest `batch_size`
MaxRounds == 2          \* largest `rounds`
MaxSimPerRound == 2     \* largest `sim_per_round`
MaxSims == 3            \* largest pre-simulated data set of train_offline

\* Python values: None, lists and dictionaries
PyNone      == [kind |-> "none", val |-> <<>>]
PyList(q)   == [kind |-> "list", val |-> q]
PyDict(f)   == [kind |-> "dict", val |-> f]
DictSet(d, k, v) ==
    PyDict([i \in (DOMAIN d.val) \cup {k} |-> IF i = k THEN v ELSE d.val[i]])
ListAppend(l, v) == PyList(Append(l.val, v))

\* the entries of the dictionary a generative model returns
Keys == {"prior_draws", "sim_data", "sim_context"}
NoArray  == [isNone |-> TRUE, data |-> <<>>]
Array(q) == [isNone |-> FALSE, data |-> q]

\* generative_model(n_sim): n_sim fresh simulations, numbered in the order
\* they are drawn; the context entry is present or None
GenerativeModel(n_sim, drawn, with_context) ==
    [k \in Keys |-> IF k = "sim_context" /\ ~with_context
                    THEN NoArray
                    ELSE Array([i \in 1..n_sim |-> drawn + i])]

\* the wrapper keys of the optional **kwargs of the training methods
WrapperKeys == {"model_args", "conf_args", "net_args"}

\* the keyword names inside each wrapper's dictionary, when it is supplied
Contents(key) ==
    IF key = "model_args" THEN {"model_kw"}
    ELSE IF key = "conf_args" THEN {"conf_kw"}
    ELSE {"net_kw"}

\* kwargs.pop(key, {}): the keyword names handed on with **
Pop(kwargs, key) == IF key \in kwargs THEN Contents(key) ELSE {}

\* a call of a collaborator with keyword arguments named kw
Call(op, val, kw) == [op |-> op, r |-> r, ep |-> ep, val |-> val, kw |-> kw]

Event(op, val) == Call(op, val, {})

RECURSIVE Count(_, _)
Count(q, op) ==
    IF q = <<>> THEN 0
    ELSE (IF Head(q).op = op THEN 1 ELSE 0) + Count(Tail(q), op)

RECURSIVE Drawn(_)
\* the number of simulations the generative model has drawn in the run
Drawn(q) ==
    IF q = <<>> THEN 0
    ELSE (IF Head(q).op = "generative_model" THEN Head(q).val ELSE 0) + Drawn(Tail(q))

\* the loss the next backprop step returns: steps are told apart by number
NextLoss(q) == Count(q, "compute_loss") + 1

\* (mutant) range(1, n)
InRangeExclusive(i, n) == i < n

\* i in range(1, n + 1), for a loop variable that counts up from 1
InRange(i, n) == i <= n

\* (mutant) the save_checkpoint flag is ignored
SaveNeededAlways(trainer, save_checkpoint) == trainer.manager

\* `self.manager is not None and save_checkpoint`
SaveNeeded(trainer, save_checkpoint) == trainer.manager /\ save_checkpoint

\* (mutant) the generative model is called without the check for None
ForwardInferenceUnchecked(trainer) == NoError

\* _forward_inference: the exception raised before the generative model is called
ForwardInferenceGuard(trainer) ==
    IF ~trainer.generative_model
    THEN Raise("SimulationError", "No generative model specified", "")
    ELSE NoError

\* what calling self.generative_model(...) does when the attribute is None
CallError(trainer, fails) ==
    IF ~trainer.generative_model
    THEN Raise("TypeError", "NoneType object is not callable", "")
    ELSE IF fails THEN Raise("Exception", ErrMsg("generative_model"), "")
    ELSE NoError

\* (mutant) the new simulations replace the earlier ones
ConcatenateReplace(old, new) ==
    [error |-> NoError, value |-> [k \in Keys |-> new[k]]]

\* the loop over simulations_dict.keys() of train_rounds: np.concatenate of
\* the entries that are not None, which fails on a None second operand
Concatenate(old, new) ==
    IF \E k \in Keys : ~old[k].isNone /\ new[k].isNone
    THEN [error |-> Raise("ValueError", "zero-dimensional arrays cannot be concatenated", ""),
          value |-> old]
    ELSE [error |-> NoError,
          value |-> [k \in Keys |-> IF ~old[k].isNone
                                    THEN Array(old[k].data \o new[k].data)
                                    ELSE old[k]]]

\* SimulatedDataset.n_sim: the number of simulations in the dictionary
NSim(d) == LET k == CHOOSE k \in Keys : ~d[k].isNone IN Len(d[k].data)

\* the number of batches one pass over SimulatedDataset yields:
\* int(np.ceil(data_set.n_sim / batch_size))
NumBatches(d, batch_size) == (NSim(d) + batch_size - 1) \div batch_size

\* the number of simulations in the batch the current step works on
BatchLen ==
    IF regime = "online" THEN params.batch_size
    ELSE LET rest == NSim(simulations_dict) - (it - 1) * params.batch_size
         IN  IF rest < params.batch_size THEN rest ELSE params.batch_size

\* (mutant) _train_step simulates even when it is handed a forward_dict
StepEntryAlwaysSimulates(has_forward_dict) == "forward"

\* _train_step: `if forward_dict is None` decides where the step starts
StepEntry(has_forward_dict) == IF has_forward_dict THEN "configure" ELSE "forward"

\* the number of training steps of an epoch
StepsPerEpoch ==
    IF regime = "online" THEN params.iterations_per_epoch
    ELSE NumBatches(simulations_dict, params.batch_size)

NoParams ==
    [epochs |-> 0, iterations_per_epoch |-> 0, batch_size |-> 0,
     save_checkpoint |-> FALSE, rounds |-> 0, sim_per_round |-> 0, kwargs |-> {}]

NoData == [k \in Keys |-> NoArray]

\* the Trainers explored by the training runs: AmortizedPosterior with the
\* default configurator, with and without generative model and checkpoints
TrainCtorArgs ==
    {a \in CtorArgs :
        /\ a.amortizer = "AmortizedPosterior" /\ a.configurator.type = "NoneType"
        /\ ~a.skip_checks
        /\ a.gm_out = "ok" /\ a.conf_out = "ok" /\ a.loss_out = "ok"}

Init ==
    /\ \E a \in TrainCtorArgs :
          /\ args = a
          /\ self = Construction(a).self
          /\ error = Construction(a).error
          /\ ctor_calls = Construction(a).calls
    /\ tpc = "ready"
    /\ regime = "none" /\ params = NoParams /\ r = 0 /\ ep = 0 /\ it = 0
    /\ losses = PyNone /\ round_losses = PyNone /\ simulations_dict = NoData
    /\ calls = <<>> /\ result = PyNone
    /\ cpc = "idle"
    /\ layer = None /\ inp = None /\ condition = None
    /\ z = None /\ ldj = None /\ inp_rec = None

Fixed == <<args, self, ctor_calls, cvars>>

\* trainer.train_online(epochs, iterations_per_epoch, batch_size, save_checkpoint)
CallTrainOnline ==
    /\ tpc = "ready"
    /\ \E epochs \in 0..MaxEpochs, iterations \in 0..MaxIterations,
          batch_size \in 1..MaxBatchSize, save \in BOOLEAN, kwargs \in SUBSET WrapperKeys :
          params' = [NoParams EXCEPT !.epochs = epochs, !.iterations_per_epoch = iterations,
                                     !.batch_size = batch_size, !.save_checkpoint = save,
                                     !.kwargs = kwargs]
    /\ regime' = "online"
    /\ losses' = PyDict(<<>>)
    /\ ep' = 1
    /\ tpc' = "epochs"
    /\ UNCHANGED <<r, it, round_losses, simulations_dict, calls, result, error, Fixed>>

\* trainer.train_offline(simulations_dict, epochs, batch_size, save_checkpoint)
CallTrainOffline ==
    /\ tpc = "ready"
    /\ \E n_sim \in 1..MaxSims, epochs \in 0..MaxEpochs,
          batch_size \in 1..MaxBatchSize, save \in BOOLEAN, with_context \in BOOLEAN,
          kwargs \in SUBSET WrapperKeys :
          /\ params' = [NoParams EXCEPT !.epochs = epochs, !.batch_size = batch_size,
                                        !.save_checkpoint = save, !.kwargs = kwargs]
          /\ simulations_dict' = GenerativeModel(n_sim, 0, with_context)
    /\ regime' = "offline"
    /\ losses' = PyDict(<<>>)
    /\ ep' = 1
    /\ tpc' = "epochs"
    /\ UNCHANGED <<r, it, round_losses, calls, result, error, Fixed>>

\* trainer.train_rounds(rounds, sim_per_round, epochs, batch_size, save_checkpoint)
CallTrainRounds ==
    /\ tpc = "ready"
    /\ \E rounds \in 0..MaxRounds, sim_per_round \in 1..MaxSimPerRound,
          epochs \in 0..MaxEpochs, batch_size \in 1..MaxBatchSize, save \in BOOLEAN,
          kwargs \in SUBSET WrapperKeys :
          params' = [NoParams EXCEPT !.rounds = rounds, !.sim_per_round = sim_per_round,
                                     !.epochs = epochs, !.batch_size = batch_size,
                                     !.save_checkpoint = save, !.kwargs = kwargs]
    /\ regime' = "rounds"
    /\ round_losses' = PyDict(<<>>)
    /\ r' = 1
    /\ tpc' = "rounds"
    /\ UNCHANGED <<ep, it, losses, simulations_dict, calls, result, error, Fixed>>

\* trainer._forward_inference(n_sim), called directly
CallForwardInference ==
    /\ tpc = "ready"
    /\ regime' = "direct"
    /\ \E n_sim \in 1..MaxBatchSize, fails \in BOOLEAN, with_context \in BOOLEAN :
       LET guard == ForwardInferenceGuard(self)
           err   == IF guard # NoError THEN guard ELSE CallError(self, fails)
       IN  /\ params' = [NoParams EXCEPT !.batch_size = n_sim]
           /\ error' = err
           /\ calls' = IF self.generative_model
                       THEN Append(calls, Call("generative_model", n_sim, {})) ELSE calls
           /\ simulations_dict' = IF err = NoError
                                  THEN GenerativeModel(n_sim, 0, with_context)
                                  ELSE simulations_dict
           /\ tpc' = IF err = NoError THEN "done" ELSE "raised"
    /\ UNCHANGED <<r, ep, it, losses, round_losses, result, Fixed>>

\* train_rounds: `for r in range(1, rounds + 1)`: simulate, append to the
\* earlier simulations and enter train_offline; return after the last round
RoundLoop ==
    /\ tpc = "rounds"
    /\ IF InRange(r, params.rounds)
       THEN \E fails \in BOOLEAN, with_context \in BOOLEAN :
            LET guard == ForwardInferenceGuard(self)
                err   == IF guard # NoError THEN guard ELSE CallError(self, fails)
                new   == GenerativeModel(params.sim_per_round, Drawn(calls), with_context)
                cat   == IF r = 1 THEN [error |-> NoError, value |-> new]
                                  ELSE Concatenate(simulations_dict, new)
            IN  /\ calls' = IF self.generative_model
                            THEN Append(calls, Call("generative_model", params.sim_per_round,
                                                   params.kwargs))
                            ELSE calls
                /\ IF err # NoError
                   THEN /\ error' = err /\ tpc' = "raised"
                        /\ UNCHANGED <<simulations_dict, losses, ep>>
                   ELSE IF cat.error # NoError
                   THEN /\ error' = cat.error /\ tpc' = "raised"
                        /\ UNCHANGED <<simulations_dict, losses, ep>>
                   ELSE /\ simulations_dict' = cat.value
                        /\ losses' = PyDict(<<>>)
                        /\ ep' = 1
                        /\ tpc' = "epochs"
                        /\ UNCHANGED error
                /\ UNCHANGED result
       ELSE /\ result' = round_losses
            /\ tpc' = "done"
            /\ UNCHANGED <<calls, error, simulations_dict, losses, ep>>
    /\ UNCHANGED <<regime, params, r, it, round_losses, Fixed>>

\* train_online / train_offline: `for ep in range(1, epochs + 1)`: open the
\* epoch's list of losses; after the last epoch return `losses`
EpochLoop ==
    /\ tpc = "epochs"
    /\ IF InRange(ep, params.epochs)
       THEN /\ losses' = DictSet(losses, ep, PyList(<<>>))
            /\ it' = 1
            /\ tpc' = "iterations"
            /\ UNCHANGED <<r, round_losses, result>>
       ELSE IF regime = "rounds"
       THEN /\ round_losses' = DictSet(round_losses, r, losses)
            /\ r' = r + 1
            /\ tpc' = "rounds"
            /\ UNCHANGED <<losses, it, result>>
       ELSE /\ result' = losses
            /\ tpc' = "done"
            /\ UNCHANGED <<losses, it, r, round_losses>>
    /\ UNCHANGED <<regime, params, ep, simulations_dict, calls, error, Fixed>>

\* the inner loop: enter _train_step for the next iteration or batch; after
\* the last one save the checkpoint, if asked to, and go to the next epoch
IterationLoop ==
    /\ tpc = "iterations"
    /\ IF InRange(it, StepsPerEpoch)
       THEN /\ tpc' = StepEntry(regime # "online")
            /\ UNCHANGED <<calls, ep>>
       ELSE /\ calls' = IF SaveNeeded(self, params.save_checkpoint)
                        THEN Append(calls, Event("save", 0)) ELSE calls
            /\ ep' = ep + 1
            /\ tpc' = "epochs"
    /\ UNCHANGED <<regime, params, r, it, losses, round_losses, simulations_dict,
                   result, error, Fixed>>

\* _train_step, forward_dict is None: self._forward_inference(batch_size)
StepForward ==
    /\ tpc = "forward"
    /\ \E fails \in BOOLEAN :
       LET guard == ForwardInferenceGuard(self)
           err   == IF guard # NoError THEN guard ELSE CallError(self, fails)
       IN  /\ calls' = IF self.generative_model
                       THEN Append(calls, Call("generative_model", params.batch_size,
                                              Pop(params.kwargs, "model_args")))
                       ELSE calls
           /\ error' = err
           /\ tpc' = IF err = NoError THEN "configure" ELSE "raised"
    /\ UNCHANGED <<regime, params, r, ep, it, losses, round_losses, simulations_dict,
                   result, Fixed>>

\* _train_step: input_dict = self.configurator(forward_dict)
StepConfigure ==
    /\ tpc = "configure"
    /\ calls' = Append(calls, Call("configurator", BatchLen,
                                  Pop(params.kwargs, "conf_args")))
    /\ \E fails \in BOOLEAN :
          /\ error' = IF fails THEN Raise("Exception", ErrMsg("configurator"), "") ELSE error
          /\ tpc' = IF fails THEN "raised" ELSE "backprop"
    /\ UNCHANGED <<regime, params, r, ep, it, losses, round_losses, simulations_dict,
                   result, Fixed>>

\* _train_step: loss = self._backprop_step(input_dict), and the caller's
\* losses[ep].append(loss)
StepBackprop ==
    /\ tpc = "backprop"
    /\ \E fails \in BOOLEAN :
       LET loss == NextLoss(calls) IN
       IF fails
       THEN /\ calls' = Append(calls, Call("compute_loss", loss, Pop(params.kwargs, "net_args")))
            /\ error' = Raise("Exception", ErrMsg("compute_loss"), "")
            /\ tpc' = "raised"
            /\ UNCHANGED <<losses, it>>
       ELSE /\ calls' = calls \o <<Call("compute_loss", loss, Pop(params.kwargs, "net_args")),
                                   Event("apply_gradients", loss)>>
            /\ losses' = DictSet(losses, ep, ListAppend(losses.val[ep], loss))
            /\ it' = it + 1
            /\ tpc' = "iterations"
            /\ UNCHANGED error
    /\ UNCHANGED <<regime, params, r, ep, round_losses, simulations_dict, result, Fixed>>

Next ==
    \/ CallTrainOnline
    \/ CallTrainOffline
    \/ CallTrainRounds
    \/ CallForwardInference
    \/ RoundLoop
    \/ EpochLoop
    \/ IterationLoop
    \/ StepForward
    \/ StepConfigure
    \/ StepBackprop

Spec == Init /\ [][Next]_vars

-----------------------------------------------------------------------------
(* Properties of the training runs.                                        *)

\* C3: a Trainer constructed without a generative model that is asked to
\* simulate, by train_online, train_rounds or _forward_inference, raises
\* SimulationError before the generative model, the configurator, the
\* amortizer or the optimizer is called and before any checkpoint is saved;
\* such a run returns only if it never asks for a simulation.
C3_SimulationError ==
    (~self.generative_model /\ regime \in {"online", "rounds", "direct"}) =>
        /\ \A i \in DOMAIN calls : calls[i].op = "save"
        /\ tpc \notin {"configure", "backprop"}
        /\ tpc = "raised" => (error.type = "SimulationError" /\ calls = <<>>)
        /\ regime = "direct" => tpc = "raised"
        /\ regime = "rounds" =>
              /\ tpc \in {"rounds", "raised", "done"} /\ r = 1
              /\ tpc = "done" => params.rounds = 0
        /\ regime = "online" =>
              /\ tpc = "iterations" => it = 1
              /\ tpc = "done" => (params.epochs = 0 \/ params.iterations_per_epoch = 0)

C3_Witness ==
    /\ ~self.generative_model /\ self.manager /\ regime = "rounds" /\ tpc = "raised"
    /\ params.rounds = 2 /\ params.save_checkpoint
    /\ error.type = "SimulationError" /\ calls = <<>>

IsStepCall(e) == e.op # "save"

StepOps == <<"generative_model", "configurator", "compute_loss", "apply_gradients">>

\* C7: train_online performs epochs * iterations_per_epoch training steps one
\* after another; each step is one generative-model call for batch_size
\* simulations, then one configurator call, then one loss computation and
\* one gradient application, and no step begins before the previous step's
\* gradients are applied.
C7_OnlineSteps ==
    regime = "online" =>
        LET steps == SelectSeq(calls, IsStepCall) IN
        /\ \A i \in DOMAIN steps :
              /\ steps[i].op = StepOps[((i - 1) % 4) + 1]
              /\ steps[i].op = "generative_model" => steps[i].val = params.batch_size
        /\ tpc = "done" =>
              /\ Len(steps) = 4 * params.epochs * params.iterations_per_epoch
              /\ Count(calls, "apply_gradients")
                    = params.epochs * params.iterations_per_epoch
        /\ tpc \in {"epochs", "iterations"} =>
              Len(steps) = 4 * ((ep - 1) * params.iterations_per_epoch
                                + (IF tpc = "iterations" THEN it - 1 ELSE 0))

C7_Witness ==
    /\ regime = "online" /\ tpc = "done"
    /\ params.epochs = 2 /\ params.iterations_per_epoch = 2 /\ params.batch_size = 2
    /\ Count(calls, "apply_gradients") = 4 /\ Count(calls, "generative_model") = 4

\* C8: in train_online and train_offline, with a checkpoint_path given at
\* construction and save_checkpoint True, the number of checkpoints saved is
\* at every point the number of completed epochs, each save following all the
\* training steps of its epoch and preceding all those of the later epochs;
\* without a checkpoint_path or with save_checkpoint False nothing is saved.
C8_SavePerEpoch ==
    regime \in {"online", "offline"} =>
        IF self.manager /\ params.save_checkpoint
        THEN /\ Count(calls, "save") = ep - 1
             /\ tpc = "done" => Count(calls, "save") = params.epochs
             /\ \A i \in DOMAIN calls : calls[i].op = "save" =>
                   /\ Cardinality({j \in 1..(i - 1) : calls[j].op = "apply_gradients"
                                                      /\ calls[j].ep = calls[i].ep})
                         = StepsPerEpoch
                   /\ \A j \in DOMAIN calls :
                         /\ j < i => calls[j].ep <= calls[i].ep
                         /\ j > i => calls[j].ep > calls[i].ep
                         /\ (j # i /\ calls[j].op = "save") => calls[j].ep # calls[i].ep
        ELSE Count(calls, "save") = 0

C8_Witness ==
    /\ regime = "offline" /\ tpc = "done" /\ self.manager /\ params.save_checkpoint
    /\ params.epochs = 2 /\ NSim(simulations_dict) = 3 /\ params.batch_size = 2
    /\ Count(calls, "save") = 2 /\ Count(calls, "apply_gradients") = 4

\* the losses of the training steps of epoch e, in the order of the steps
RECURSIVE LossesOf(_, _)
LossesOf(q, e) ==
    IF q = <<>> THEN <<>>
    ELSE (IF Head(q).op = "apply_gradients" /\ Head(q).ep = e THEN <<Head(q).val>> ELSE <<>>)
         \o LossesOf(Tail(q), e)

\* C9: train_online, train_offline and train_rounds return a dictionary whose
\* keys are the epoch numbers and whose value for an epoch is the list of the
\* losses of that epoch's training steps, in the order of the steps.
C9_LossesByEpoch ==
    (regime \in {"online", "offline", "rounds"} /\ tpc = "done") =>
        /\ result.kind = "dict"
        /\ \A k \in DOMAIN result.val :
              /\ result.val[k].kind = "list"
              /\ result.val[k].val = LossesOf(calls, k)

\* what the code returns: train_online and train_offline return the losses by
\* epoch; train_rounds returns, by round, the dictionary train_offline
\* returned for that round
ReturnedLosses ==
    (regime \in {"online", "offline", "rounds"} /\ tpc = "done") =>
        /\ result.kind = "dict"
        /\ regime # "rounds" =>
              /\ DOMAIN result.val = 1..params.epochs
              /\ \A k \in DOMAIN result.val :
                    /\ result.val[k].kind = "list"
                    /\ result.val[k].val = LossesOf(calls, k)
        /\ regime = "rounds" =>
              /\ DOMAIN result.val = 1..params.rounds
              /\ \A k \in DOMAIN result.val :
                    /\ result.val[k].kind = "dict"
                    /\ DOMAIN result.val[k].val = 1..params.epochs

\* C10: in train_rounds the data set trained on in round r holds, in every
\* entry that carries data, the sim_per_round * r simulations of rounds 1..r
\* in the order they were drawn, and one generative-model call of
\* sim_per_round simulations is made per round.
C10_DatasetGrows ==
    (regime = "rounds" /\ tpc \in {"epochs", "iterations", "configure", "backprop"}) =>
        /\ \A k \in Keys : ~simulations_dict[k].isNone =>
              simulations_dict[k].data = [i \in 1..(params.sim_per_round * r) |-> i]
        /\ \E k \in Keys : ~simulations_dict[k].isNone
        /\ Count(calls, "generative_model") = r
        /\ \A i \in DOMAIN calls : calls[i].op = "generative_model" =>
              calls[i].val = params.sim_per_round /\ calls[i].r = Count(SubSeq(calls, 1, i), "generative_model")

C10_Witness ==
    /\ regime = "rounds" /\ tpc = "backprop" /\ r = 2 /\ params.sim_per_round = 2
    /\ simulations_dict["sim_data"].data = <<1, 2, 3, 4>>
    /\ simulations_dict["sim_context"].data = <<1, 2, 3, 4>>

\* the keyword names a collaborator is meant to receive
Routed(op) ==
    IF op = "generative_model" THEN Pop(params.kwargs, "model_args")
    ELSE IF op = "configurator" THEN Pop(params.kwargs, "conf_args")
    ELSE IF op = "compute_loss" THEN Pop(params.kwargs, "net_args")
    ELSE {}

\* C11: in train_online, train_offline and train_rounds every call of the
\* generative model receives exactly the contents of model_args, every call
\* of the configurator those of conf_args and every compute_loss those of
\* net_args, never another component's arguments or the wrapper keys.
C11_KwargsRouted ==
    regime \in {"online", "offline", "rounds"} =>
        \A i \in DOMAIN calls : calls[i].kw = Routed(calls[i].op)

\* what the code does: the routing holds in every _train_step; the
\* simulation call of train_rounds hands the generative model the wrapper
\* keys themselves
KwargsReceived ==
    regime \in {"online", "offline", "rounds"} =>
        \A i \in DOMAIN calls :
            IF regime = "rounds" /\ calls[i].op = "generative_model"
            THEN calls[i].kw = params.kwargs
            ELSE calls[i].kw = Routed(calls[i].op)

\* C12: train_offline never calls the generative model and so never fails
\* with SimulationError, with or without a generative model in the Trainer;
\* every epoch passes over the whole data set, one gradient step per batch,
\* ceil(n_sim / batch_size) steps per epoch.
C12_OfflineSteps ==
    regime = "offline" =>
        LET n     == NSim(simulations_dict)
            steps(e) == {i \in DOMAIN calls : calls[i].op = "apply_gradients"
                                              /\ calls[i].ep = e}
            seen(e)  == {i \in DOMAIN calls : calls[i].op = "configurator"
                                              /\ calls[i].ep = e}
        IN
        /\ Count(calls, "generative_model") = 0
        /\ tpc # "forward"
        /\ error.type \notin {"SimulationError", "TypeError"}
        /\ \A e \in 1..params.epochs :
              (e < ep \/ tpc = "done") =>
                  /\ (Cardinality(steps(e)) - 1) * params.batch_size < n
                  /\ n <= Cardinality(steps(e)) * params.batch_size
                  /\ Cardinality(seen(e)) = Cardinality(steps(e))
                  /\ ISum([j \in 1..Cardinality(seen(e)) |->
                             calls[CHOOSE i \in seen(e) :
                                     Cardinality({k \in seen(e) : k <= i}) = j].val]) = n
        /\ tpc = "done" => ep = params.epochs + 1

C12_Witness ==
    /\ regime = "offline" /\ tpc = "done" /\ ~self.generative_model
    /\ params.epochs = 2 /\ NSim(simulations_dict) = 3 /\ params.batch_size = 2
    /\ Count(calls, "apply_gradients") = 4 /\ Count(calls, "generative_model") = 0
    /\ error = NoError

====
